---- MODULE Spec2Model ----
(***************************************************************************)
(* ThemeManager.js of Brackets-Themes as a state machine.                  *)
(*                                                                         *)
(* State: the registry loadedThemes, the Theme objects, the themes         *)
(* preference, the files, the style sheets embedded in the document, the   *)
(* read -> extract -> lessify -> embed -> store chains started by          *)
(* loadCurrentThemes, the $.when aggregates of refresh(true), the          *)
(* file.exists callbacks of loadFile, the listings of loadDirectory, the   *)
(* active editor and the timers of refreshEditor.  One action per handler  *)
(* or continuation.                                                        *)
(*                                                                         *)
(* Strings are sequences of tokens: a file name is <<"a", ".", "css">>, a  *)
(* theme source is a sequence of rule tokens.                              *)
(***************************************************************************)
EXTENDS Integers, Sequences, FiniteSets, TLC

\* ------------------------------------------------------------------ bounds
MaxOps       == 2     \* calls and notifications from outside in one behaviour
MaxPipelines == 3     \* read/compile chains started in one behaviour
MaxDirs      == 1     \* loadDirectory calls in one behaviour
MaxThemes    == 2     \* Theme objects constructed from arbitrary file names
MaxLen       == 8     \* characters of a theme source

\* --------------------------------------------------------------- constants
defaultTheme == <<"default">>

NameA == <<"a">>
NameZ == <<"zz">>                       \* a name no file provides

FileA       == <<"a", ".", "css">>
FileDefault == <<"default", ".", "css">>
Files       == {FileA, FileDefault}

\* theme sources: "cm" a block comment, "sb1"/"sb2" rules with a
\* ::-webkit-scrollbar selector, "rule" another rule, "bad" text that the
\* less parser rejects
SourceGood == <<"cm", "sb1", "rule">>
SourceBad  == <<"sb2", "bad">>
Sources    == {SourceGood, SourceBad}
\* the texts a file is given in one behaviour: only a.css is edited
SourcesOf(file) == IF file = FileA THEN Sources ELSE {SourceGood}

PrefChoices == {<<NameA>>, <<NameA, defaultTheme>>, <<NameZ, NameA>>}
Editors     == {"none", "nocm", "cm"}   \* no active editor / one without _codeMirror / one with
LightKeys   == {"customScrollbars", "fontSize", "lineHeight", "fontType"}

Names == {NameA, NameZ, defaultTheme}

undefined == 0                           \* no theme, no style node

validExtensions == {<<"css">>, <<"less">>}

\* the path argument of loadDirectory: NoPath is "" or undefined
NoPath     == <<>>
PathThemes == <<"themes">>
Paths      == {NoPath, PathThemes}

\* the entries a directory listing is made of, in listing order: two theme
\* files, a text file, a directory named like a theme file, and a file
\* whose extension is in upper case
FileDefaultLess == <<"default", ".", "less">>
AllEntries ==
    << [name |-> FileA,                 isFile |-> TRUE],
       [name |-> FileDefaultLess,       isFile |-> TRUE],
       [name |-> <<"c", ".", "txt">>,   isFile |-> TRUE],
       [name |-> <<"d", ".", "css">>,   isFile |-> FALSE],
       [name |-> <<"e", ".", "CSS">>,   isFile |-> TRUE] >>
NoScrollbar == <<"undefined">>           \* theme.scrollbar before the first read

VARIABLES
    inited,        \* init() has wired the listeners
    prefThemes,    \* prefs.get("themes")
    loadedThemes,  \* name -> index into themes, or undefined
    themes,        \* the Theme objects ever constructed
    fileSource,    \* file -> its text
    styleSheets,   \* the style nodes embedded in the document
    pipes,         \* the promise chains of loadCurrentThemes
    reloads,       \* the $.when aggregates of refresh(true)
    loads,         \* the loadFile calls
    editor,        \* EditorManager.getActiveEditor()
    timers,        \* pending refreshEditor timeouts
    ops,           \* calls and notifications received so far
    calls,         \* what the last step did to the view and to listeners, in order: the
                   \* calls of refresh's done callback, a themeChange event, a TypeError
    themeChangeArg,\* the payload of the last themeChange event
    dirs,          \* the loadDirectory calls
    text,          \* a theme source, character by character
    replaced       \* how many times text was put through replace(commentRegex, "")

vars == <<inited, prefThemes, loadedThemes, themes, fileSource, styleSheets,
          pipes, reloads, loads, editor, timers, ops, calls, themeChangeArg,
          dirs, text, replaced>>

\* ------------------------------------------------------------- pure helpers
RECURSIVE lastIndexOf(_, _)
\* 1-based position of the last occurrence of c in s, 0 when there is none
lastIndexOf(s, c) ==
    IF s = <<>> THEN 0
    ELSE IF s[Len(s)] = c THEN Len(s)
    ELSE lastIndexOf(SubSeq(s, 1, Len(s) - 1), c)

\* fileName.substring(0, fileName.lastIndexOf('.'))
baseName(fileName) == SubSeq(fileName, 1, lastIndexOf(fileName, ".") - 1)

\* toUpperCase of the first character of a token
upper(tok) ==
    CASE tok = "a" -> "A"
      [] tok = "b" -> "B"
      [] tok = "default" -> "Default"
      [] OTHER -> tok

\* toDisplayName (53-62): dashes become spaces and each part gets a capital
\* (for names without an empty part)
toDisplayName(fileName) ==
    LET n  == baseName(fileName)
        sp == [i \in 1..Len(n) |-> IF n[i] = "-" THEN " " ELSE n[i]]
    IN  [i \in 1..Len(sp) |->
            IF sp[i] # " " /\ (i = 1 \/ sp[i - 1] = " ") THEN upper(sp[i]) ELSE sp[i]]

\* new Theme(file, {})
Theme(file) ==
    [file      |-> file,
     displayName |-> toDisplayName(file),
     name      |-> baseName(file),
     className |-> <<"theme-">> \o baseName(file),
     scrollbar |-> NoScrollbar,
     css       |-> undefined]

isComment(tok)   == tok = "cm"
isScrollbar(tok) == tok \in {"sb1", "sb2"}

extractScrollbars(content) ==
    LET stripped == SelectSeq(content, LAMBDA t : ~isComment(t))
    IN  [content   |-> SelectSeq(stripped, LAMBDA t : ~isScrollbar(t)),
         scrollbar |-> SelectSeq(stripped, isScrollbar)]

\* the less parser reports err for this content
lessFails(content) == \E i \in 1..Len(content) : content[i] = "bad"

\* the lookup without the fallback to the default theme
lookupNoDefault(reg, item) == reg[item]

\* loadedThemes[item] || loadedThemes[defaultTheme], over a registry reg
lookupOrDefault(reg, item) ==
    IF reg[item] # undefined THEN reg[item] ELSE reg[defaultTheme]

getCurrentThemesIn(reg, pref) ==
    [i \in 1..Len(pref) |-> lookupOrDefault(reg, pref[i])]

getCurrentThemes == getCurrentThemesIn(loadedThemes, prefThemes)

\* _.find(loadedThemes, item.file._path === path)
getThemeByFile(file) ==
    IF \E n \in Names : loadedThemes[n] # undefined /\ themes[loadedThemes[n]].file = file
    THEN CHOOSE n \in Names : loadedThemes[n] # undefined /\ themes[loadedThemes[n]].file = file
    ELSE <<>>

Init ==
    /\ inited = FALSE
    /\ prefThemes \in PrefChoices
    /\ loadedThemes = [n \in Names |-> undefined]
    /\ themes = <<>>
    /\ fileSource = [f \in Files |-> SourceGood]
    /\ styleSheets = {}
    /\ pipes = <<>>
    /\ reloads = <<>>
    /\ loads = <<>>
    /\ editor \in {"none", "cm"}            \* one without _codeMirror comes by activeEditorChange
    /\ timers = 0
    /\ ops = 0
    /\ calls = <<>>
    /\ themeChangeArg = <<>>
    /\ dirs = <<>>
    /\ text = <<>>
    /\ replaced = 0

\* --------------------------------------------------------- refresh (224-236)
\* refreshEditor(cm): one setTimeout; refresh's done callback
\* the done callback without the test of editor._codeMirror
doneCallbackAnyEditor(ed) ==
    IF ed # "none"
    THEN [calls |-> <<"setDocumentMode", "updateThemes", "setTimeout">>, timers |-> 1, view |-> "updated"]
    ELSE [calls |-> <<>>, timers |-> 0, view |-> "skipped"]

doneCallback(ed) ==
    IF ed = "cm"
    THEN [calls |-> <<"setDocumentMode", "updateThemes", "setTimeout">>, timers |-> 1, view |-> "updated"]
    ELSE [calls |-> <<>>, timers |-> 0, view |-> "skipped"]

newPipe(ths, t, rid) ==
    [theme |-> t, reload |-> rid, pc |-> "reading", content |-> <<>>,
     node |-> undefined, removed |-> undefined,
     sb0 |-> ths[t].scrollbar, css0 |-> ths[t].css]

\* positions of the selection that resolve to no theme
missing(cur) == {i \in 1..Len(cur) : cur[i] = undefined}

\* _.map(getCurrentThemes(), ...) reads theme.file of each element in turn:
\* it starts a chain for each element before the first undefined one and
\* throws a TypeError there
startedCount(cur) ==
    IF missing(cur) = {} THEN Len(cur)
    ELSE (CHOOSE i \in missing(cur) : \A j \in missing(cur) : i <= j) - 1

\* loadCurrentThemes (176-203): the chains started, and whether the map threw
loadCurrentThemes(reg, ths, pref) ==
    LET cur   == getCurrentThemesIn(reg, pref)
        k     == startedCount(cur)
    IN  [threw |-> missing(cur) # {},
         n     |-> k,
         sel   |-> cur,
         pipes |-> pipes \o [i \in 1..k |-> newPipe(ths, cur[i], Len(reloads) + 1)]]

\* the effect of refresh(force) on a registry reg, Theme objects ths,
\* themes preference pref and active editor ed.  Every refresh(true) call
\* is recorded in reloads, with the caller that made it (trigger), the
\* selection it resolved (sel) and its $.when aggregate (state): "threw"
\* when loadCurrentThemes threw, so that no aggregate and no done callback
\* exist.  view is what the done callback did, emitted whether a
\* themeChange event was triggered for the call.
lightReapply(ed) ==
    LET d == doneCallback(ed)
    IN  [threw |-> FALSE, pipes |-> pipes, reloads |-> reloads,
         calls |-> d.calls, timers |-> timers + d.timers]

fullReload(reg, ths, pref, ed, trigger) ==
    LET l   == loadCurrentThemes(reg, ths, pref)
        d   == doneCallback(ed)
        rec == [pipes |-> (Len(pipes) + 1)..(Len(pipes) + l.n), trigger |-> trigger,
                sel |-> l.sel, emitted |-> FALSE]
    IN  IF l.threw
        THEN [threw |-> TRUE, pipes |-> l.pipes,
              reloads |-> Append(reloads, rec @@ [state |-> "threw", view |-> "pending"]),
              calls |-> <<"TypeError">>, timers |-> timers]
        ELSE IF l.n = 0
        THEN [threw |-> FALSE, pipes |-> l.pipes,
              reloads |-> Append(reloads, rec @@ [state |-> "resolved", view |-> d.view]),
              calls |-> d.calls, timers |-> timers + d.timers]
        ELSE [threw |-> FALSE, pipes |-> l.pipes,
              reloads |-> Append(reloads, rec @@ [state |-> "pending", view |-> "pending"]),
              calls |-> <<>>, timers |-> timers]

\* refresh that reloads the themes whatever force is
refreshAlwaysReloads(force, reg, ths, pref, ed, trigger) ==
    fullReload(reg, ths, pref, ed, trigger)

refresh(force, reg, ths, pref, ed, trigger) ==
    IF force THEN fullReload(reg, ths, pref, ed, trigger) ELSE lightReapply(ed)

noRefresh ==
    [threw |-> FALSE, pipes |-> pipes, reloads |-> reloads, calls |-> <<>>, timers |-> timers]

withinBounds(r) == Len(r.pipes) <= MaxPipelines

\* ------------------------------------------------------------- the actions
\* init() ending with a refresh() before its two ThemeView updates
InitModuleReapplies ==
    /\ UNCHANGED <<dirs, text, replaced>>
    /\ UNCHANGED ops
    /\ ~inited
    /\ inited' = TRUE
    /\ LET r == refresh(FALSE, loadedThemes, themes, prefThemes, editor, "init")
       IN  /\ timers' = r.timers
           /\ calls' = r.calls \o <<"updateFonts", "updateScrollbars">>
    /\ UNCHANGED <<prefThemes, loadedThemes, themes, fileSource, styleSheets,
                   pipes, reloads, loads, editor, themeChangeArg>>

\* init() (344-390)
InitModule ==
    /\ UNCHANGED <<dirs, text, replaced>>
    /\ UNCHANGED ops
    /\ ~inited
    /\ inited' = TRUE
    /\ calls' = <<"updateFonts", "updateScrollbars">>
    /\ UNCHANGED <<prefThemes, loadedThemes, themes, fileSource, styleSheets,
                   pipes, reloads, loads, editor, timers, themeChangeArg>>

\* the themes listener with the themeChange event triggered from the done
\* callback of the reload instead: nothing is triggered by the handler itself
PrefThemesChangeSilent(sel) ==
    /\ UNCHANGED <<dirs, text, replaced>>
    /\ ops < MaxOps
    /\ ops' = ops + 1
    /\ inited
    /\ sel # prefThemes
    /\ prefThemes' = sel
    /\ LET r == refresh(TRUE, loadedThemes, themes, sel, editor, "themes")
       IN  /\ withinBounds(r)
           /\ pipes' = r.pipes
           /\ timers' = r.timers
           /\ calls' = r.calls
           /\ reloads' = r.reloads
           /\ UNCHANGED themeChangeArg
    /\ UNCHANGED <<inited, loadedThemes, themes, fileSource, styleSheets, loads, editor>>

\* the themes preference changes and the listener of 345-351 runs (changes
\* made before init() are part of the initial state)
PrefThemesChange(sel) ==
    /\ UNCHANGED <<dirs, text, replaced>>
    /\ ops < MaxOps
    /\ ops' = ops + 1
    /\ inited
    /\ sel # prefThemes
    /\ prefThemes' = sel
    /\ LET r == refresh(TRUE, loadedThemes, themes, sel, editor, "themes")
       IN  /\ withinBounds(r)
           /\ pipes' = r.pipes
           /\ timers' = r.timers
           /\ IF ~r.threw
              THEN /\ calls' = r.calls \o <<"themeChange">>
                   /\ themeChangeArg' = getCurrentThemesIn(loadedThemes, sel)
                   /\ reloads' = [r.reloads EXCEPT ![Len(r.reloads)].emitted = TRUE]
              ELSE /\ calls' = r.calls
                   /\ reloads' = r.reloads
                   /\ UNCHANGED themeChangeArg
    /\ UNCHANGED <<inited, loadedThemes, themes, fileSource, styleSheets, loads, editor>>

\* the listeners of 353-371: refresh(), then an update of ThemeView that is
\* outside this model
PrefLightChange(key) ==
    /\ UNCHANGED <<dirs, text, replaced>>
    /\ ops < MaxOps
    /\ ops' = ops + 1
    /\ inited
    /\ LET r == refresh(FALSE, loadedThemes, themes, prefThemes, editor, key)
       IN  /\ withinBounds(r)
           /\ pipes' = r.pipes
           /\ reloads' = r.reloads
           /\ timers' = r.timers
           /\ calls' = r.calls
    /\ UNCHANGED <<inited, prefThemes, loadedThemes, themes, fileSource, styleSheets,
                   loads, editor, themeChangeArg>>

\* a file system change of entry file (a directory when isDir), the file's
\* text now being src; the listener of 373-381
\* the listener of 373-381 without its test of file.isDirectory
fsChangeRefreshesDirectories(file, isDir) == getThemeByFile(file) # <<>>

fsChangeRefreshes(file, isDir) == ~isDir /\ getThemeByFile(file) # <<>>

FileSystemChange(file, isDir, src) ==
    /\ UNCHANGED <<dirs, text, replaced>>
    /\ ops < MaxOps
    /\ ops' = ops + 1
    /\ fileSource' = IF isDir THEN fileSource ELSE [fileSource EXCEPT ![file] = src]
    /\ LET r == IF inited /\ fsChangeRefreshes(file, isDir)
                THEN refresh(TRUE, loadedThemes, themes, prefThemes, editor, "fsChange") ELSE noRefresh
       IN  /\ withinBounds(r)
           /\ pipes' = r.pipes
           /\ reloads' = r.reloads
           /\ timers' = r.timers
           /\ calls' = r.calls
    /\ UNCHANGED <<inited, prefThemes, loadedThemes, themes, styleSheets, loads,
                   editor, themeChangeArg>>

\* the active editor changes; the listener of 383-385
ActiveEditorChange(ed) ==
    /\ UNCHANGED <<dirs, text, replaced>>
    /\ ops < MaxOps
    /\ ops' = ops + 1
    /\ inited
    /\ ed # editor
    /\ editor' = ed
    /\ LET r == refresh(FALSE, loadedThemes, themes, prefThemes, ed, "activeEditorChange")
       IN  /\ withinBounds(r)
           /\ pipes' = r.pipes
           /\ reloads' = r.reloads
           /\ timers' = r.timers
           /\ calls' = r.calls
    /\ UNCHANGED <<inited, prefThemes, loadedThemes, themes, fileSource, styleSheets,
                   loads, themeChangeArg>>

\* exports.refresh(force) called directly
CallRefresh(force) ==
    /\ UNCHANGED <<dirs, text, replaced>>
    /\ ops < MaxOps
    /\ ops' = ops + 1
    /\ LET r == refresh(force, loadedThemes, themes, prefThemes, editor, "refresh")
       IN  /\ withinBounds(r)
           /\ pipes' = r.pipes
           /\ reloads' = r.reloads
           /\ timers' = r.timers
           /\ calls' = r.calls
    /\ UNCHANGED <<inited, prefThemes, loadedThemes, themes, fileSource, styleSheets,
                   loads, editor, themeChangeArg>>

\* the timeout of refreshEditor fires (162-165)
TimerFire ==
    /\ UNCHANGED <<dirs, text, replaced>>
    /\ UNCHANGED ops
    /\ timers > 0
    /\ timers' = timers - 1
    /\ calls' = <<>>
    /\ UNCHANGED <<inited, prefThemes, loadedThemes, themes, fileSource, styleSheets,
                   pipes, reloads, loads, editor, themeChangeArg>>

\* ------------------------------------------- loadCurrentThemes (176-203)
\* $.when over the chains of reload rl, given the chains ps: rejected with
\* the first chain that fails, resolved once every chain is done
whenState(rl, ps) ==
    IF rl.state # "pending" THEN rl.state
    ELSE IF \E q \in rl.pipes : ps[q].pc = "failed" THEN "rejected"
    ELSE IF \A q \in rl.pipes : ps[q].pc = "done" THEN "resolved"
    ELSE "pending"

\* the aggregates after chain p moved, ps being the chains now: the done
\* callback of refresh runs when p's aggregate resolves
settle(p, ps) ==
    LET rid == ps[p].reload
        now == whenState(reloads[rid], ps)
        d   == doneCallback(editor)
    IN  IF reloads[rid].state = "pending" /\ now = "resolved"
        THEN [reloads |-> [reloads EXCEPT ![rid].state = now, ![rid].view = d.view],
              calls   |-> d.calls,
              timers  |-> timers + d.timers]
        ELSE [reloads |-> [reloads EXCEPT ![rid].state = now],
              calls   |-> <<>>,
              timers  |-> timers]

\* a failed read that abandons the other chains of the same refresh
readFailedAbandonsReload(p) ==
    [pipes |-> [q \in 1..Len(pipes) |->
                   IF pipes[q].reload = pipes[p].reload /\ pipes[q].pc \in {"reading", "compiling"}
                   THEN [pipes[q] EXCEPT !.pc = "failed"] ELSE pipes[q]],
     themes |-> themes]

\* FileUtils.readAsText(theme.file) failed: the chain is rejected
readFailed(p) ==
    [pipes |-> [pipes EXCEPT ![p].pc = "failed"], themes |-> themes]

\* 180-187: the text is read; extractScrollbars, theme.scrollbar is set and
\* lessifyTheme is started on the rest
readSucceeded(p) ==
    LET result == extractScrollbars(fileSource[themes[pipes[p].theme].file])
    IN  [pipes  |-> [pipes EXCEPT ![p].pc = "compiling", ![p].content = result.content],
         themes |-> [themes EXCEPT ![pipes[p].theme].scrollbar = result.scrollbar]]

ReadDone(p, ok) ==
    /\ UNCHANGED <<dirs, text, replaced>>
    /\ UNCHANGED ops
    /\ p \in 1..Len(pipes)
    /\ pipes[p].pc = "reading"
    /\ LET n == IF ok THEN readSucceeded(p) ELSE readFailed(p)
           s == settle(p, n.pipes)
       IN  /\ pipes' = n.pipes
           /\ themes' = n.themes
           /\ reloads' = s.reloads
           /\ timers' = s.timers
           /\ calls' = s.calls
    /\ UNCHANGED <<inited, prefThemes, loadedThemes, fileSource, styleSheets, loads,
                   editor, themeChangeArg>>

\* compiled with the old style node removed before the new one is embedded
compiledRemovesOldFirst(p) ==
    IF lessFails(pipes[p].content)
    THEN [pipes |-> [pipes EXCEPT ![p].pc = "failed"], styleSheets |-> styleSheets]
    ELSE [pipes |-> [pipes EXCEPT ![p].pc = "embedded", ![p].node = p,
                                  ![p].removed = themes[pipes[p].theme].css],
          styleSheets |-> (styleSheets \ {themes[pipes[p].theme].css}) \cup {p}]

\* 110-117 and 188-190: the parser calls back; on err the chain is rejected,
\* otherwise the css is embedded as a new style node (node p)
compiled(p) ==
    IF lessFails(pipes[p].content)
    THEN [pipes |-> [pipes EXCEPT ![p].pc = "failed"],
          styleSheets |-> styleSheets]
    ELSE [pipes |-> [pipes EXCEPT ![p].pc = "embedded", ![p].node = p],
          styleSheets |-> styleSheets \cup {p}]

CompileDone(p) ==
    /\ UNCHANGED <<dirs, text, replaced>>
    /\ UNCHANGED ops
    /\ p \in 1..Len(pipes)
    /\ pipes[p].pc = "compiling"
    /\ LET n == compiled(p)
           s == settle(p, n.pipes)
       IN  /\ pipes' = n.pipes
           /\ styleSheets' = n.styleSheets
           /\ reloads' = s.reloads
           /\ timers' = s.timers
           /\ calls' = s.calls
    /\ UNCHANGED <<inited, prefThemes, loadedThemes, themes, fileSource, loads,
                   editor, themeChangeArg>>

\* the last callback without the removal of the theme's current style node
storedKeepsOld(p) ==
    [pipes |-> [pipes EXCEPT ![p].pc = "done"],
     styleSheets |-> styleSheets,
     themes |-> [themes EXCEPT ![pipes[p].theme].css = pipes[p].node]]

\* 191-199: the theme's current style node, if any, is removed and the new
\* one recorded
stored(p) ==
    LET t   == pipes[p].theme
        old == themes[t].css
    IN  [pipes |-> [pipes EXCEPT ![p].pc = "done", ![p].removed = old],
         styleSheets |-> IF old # undefined THEN styleSheets \ {old} ELSE styleSheets,
         themes |-> [themes EXCEPT ![t].css = pipes[p].node]]

Store(p) ==
    /\ UNCHANGED <<dirs, text, replaced>>
    /\ UNCHANGED ops
    /\ p \in 1..Len(pipes)
    /\ pipes[p].pc = "embedded"
    /\ LET n == stored(p)
           s == settle(p, n.pipes)
       IN  /\ pipes' = n.pipes
           /\ styleSheets' = n.styleSheets
           /\ themes' = n.themes
           /\ reloads' = s.reloads
           /\ timers' = s.timers
           /\ calls' = s.calls
    /\ UNCHANGED <<inited, prefThemes, loadedThemes, fileSource, loads, editor,
                   themeChangeArg>>

\* ------------------------------------------------------ loadFile (247-275)
\* 248-253: the deferred of a loadFile call, the themes preference it read
\* and its pending file.exists
loadFile(file) ==
    [file |-> file, currentThemes |-> prefThemes,
     state |-> "checking", answer |-> "none",
     theme |-> undefined, refreshed |-> FALSE]

LoadFile(file) ==
    /\ UNCHANGED <<dirs, text, replaced>>
    /\ ops < MaxOps
    /\ ops' = ops + 1
    /\ loads' = Append(loads, loadFile(file))
    /\ calls' = <<>>
    /\ UNCHANGED <<inited, prefThemes, loadedThemes, themes, fileSource, styleSheets,
                   pipes, reloads, editor, timers, themeChangeArg>>

contains(seq, x) == \E i \in 1..Len(seq) : seq[i] = x

\* the callback of file.exists (253-272) for call l, with its arguments
existsCallback(l, err, exists) ==
    IF exists
    THEN LET theme == Theme(loads[l].file)
             id    == Len(themes) + 1
             ths   == Append(themes, theme)
             reg   == [loadedThemes EXCEPT ![theme.name] = id]
             r     == IF contains(loads[l].currentThemes, theme.name)
                      THEN refresh(TRUE, reg, ths, prefThemes, editor, "loadFile")
                      ELSE noRefresh
         IN  [themes |-> ths, loadedThemes |-> reg, r |-> r,
              loads |-> [loads EXCEPT ![l].state = IF r.threw THEN "threw" ELSE "resolved",
                                      ![l].answer = "exists",
                                      ![l].theme = id,
                                      ![l].refreshed = contains(loads[l].currentThemes, theme.name)]]
    ELSE [themes |-> themes, loadedThemes |-> loadedThemes, r |-> noRefresh,
          loads |-> [loads EXCEPT ![l].state = IF err THEN "rejected" ELSE "dropped",
                                  ![l].answer = IF err THEN "error" ELSE "absent"]]

\* err with exists is not delivered: the file system reports an error
\* instead of an answer
ExistsDone(l, err, exists) ==
    /\ UNCHANGED <<dirs, text, replaced>>
    /\ UNCHANGED ops
    /\ l \in 1..Len(loads)
    /\ loads[l].state = "checking"
    /\ ~(err /\ exists)
    /\ LET n == existsCallback(l, err, exists)
       IN  /\ withinBounds(n.r)
           /\ themes' = n.themes
           /\ loadedThemes' = n.loadedThemes
           /\ loads' = n.loads
           /\ pipes' = n.r.pipes
           /\ reloads' = n.r.reloads
           /\ timers' = n.r.timers
           /\ calls' = n.r.calls
    /\ UNCHANGED <<inited, prefThemes, fileSource, styleSheets, editor, themeChangeArg>>

\* ------------------------------------------------- loadDirectory (296-341)
RECURSIVE subSeqOf(_, _)
\* the elements of seq whose position is in S, in order
subSeqOf(seq, S) ==
    IF seq = <<>> THEN <<>>
    ELSE LET front == subSeqOf(SubSeq(seq, 1, Len(seq) - 1), S)
         IN  IF Len(seq) \in S THEN Append(front, seq[Len(seq)]) ELSE front

\* the listings getContents may deliver
Listings == {subSeqOf(AllEntries, S) : S \in SUBSET (1..Len(AllEntries))}

\* FileUtils.getFileExtension(name): what follows the last ".", "" when
\* there is none
getFileExtension(name) ==
    IF lastIndexOf(name, ".") = 0 THEN <<>>
    ELSE SubSeq(name, lastIndexOf(name, ".") + 1, Len(name))

\* isFileTypeValid without its test of file.isFile
isFileTypeValidAnyEntry(file) == getFileExtension(file.name) \in validExtensions

isFileTypeValid(file) ==
    file.isFile /\ getFileExtension(file.name) \in validExtensions

\* 307-314: the names of the valid entries, in listing order
validFiles(entries) ==
    LET valid == SelectSeq(entries, isFileTypeValid)
    IN  [i \in 1..Len(valid) |-> valid[i].name]

\* readContent that resolves result whatever err is
readContentIgnoresError(path, err, entries) ==
    [result |-> "resolved", value |-> [files |-> validFiles(entries), path |-> path]]

\* readContent (306-328): result is rejected with {path, error} on err and
\* resolved with {files, path} otherwise
readContent(path, err, entries) ==
    IF err
    THEN [result |-> "rejected", value |-> [path |-> path, error |-> "err"]]
    ELSE [result |-> "resolved", value |-> [files |-> validFiles(entries), path |-> path]]

\* loadDirectory(path) (296-304, 339-340): result is rejected at once for a
\* falsy path; otherwise getContents is called and result.then is returned
LoadDirectory(path) ==
    /\ Len(dirs) < MaxDirs
    /\ dirs' = Append(dirs,
                  IF path = NoPath
                  THEN [path |-> path, listing |-> "none", result |-> "rejected",
                        value |-> [path |-> path, error |-> "Path not defined"],
                        entries |-> <<>>, loads |-> {}]
                  ELSE [path |-> path, listing |-> "pending", result |-> "pending",
                        value |-> <<>>, entries |-> <<>>, loads |-> {}])
    /\ calls' = <<>>
    /\ UNCHANGED <<inited, prefThemes, loadedThemes, themes, fileSource, styleSheets,
                   pipes, reloads, loads, editor, timers, ops, themeChangeArg,
                   text, replaced>>

\* getContents calls back for call d with (err, entries); on success
\* loadThemesFiles (330-337) calls loadFile for each of themes.files
ReadContent(d, err, entries) ==
    /\ d \in 1..Len(dirs)
    /\ dirs[d].listing = "pending"
    /\ LET rc    == readContent(dirs[d].path, err, entries)
           files == IF rc.result = "resolved" THEN rc.value.files ELSE <<>>
       IN  /\ loads' = loads \o [i \in 1..Len(files) |-> loadFile(files[i])]
           /\ dirs' = [dirs EXCEPT ![d].listing = IF err THEN "failed" ELSE "delivered",
                                   ![d].result = rc.result,
                                   ![d].value = rc.value,
                                   ![d].entries = entries,
                                   ![d].loads = (Len(loads) + 1)..(Len(loads) + Len(files))]
    /\ calls' = <<>>
    /\ UNCHANGED <<inited, prefThemes, loadedThemes, themes, fileSource, styleSheets,
                   pipes, reloads, editor, timers, ops, themeChangeArg, text, replaced>>

\* $.when.apply(undefined, deferred) over the loadFile results ls: rejected
\* with the first that rejects, resolved once all have resolved
whenLoads(ls) ==
    IF \E l \in ls : loads[l].state = "rejected" THEN "rejected"
    ELSE IF \A l \in ls : loads[l].state = "resolved" THEN "resolved"
    ELSE "pending"

\* the promise loadDirectory returned for call d: result.then(loadThemesFiles)
dirState(d) ==
    IF dirs[d].result = "resolved" THEN whenLoads(dirs[d].loads) ELSE dirs[d].result

NextDir ==
    \/ \E path \in Paths : LoadDirectory(path)
    \/ \E d \in 1..Len(dirs), err \in BOOLEAN, entries \in Listings : ReadContent(d, err, entries)
    \/ \E l \in 1..Len(loads), err \in BOOLEAN, exists \in BOOLEAN : ExistsDone(l, err, exists)

\* loadDirectory and the callbacks it leads to never read the active
\* editor unless a reload resolves, which takes the chains' continuations
InitDir == Init /\ editor = "none"

SpecDir == InitDir /\ [][NextDir]_vars

\* ------------------------------------------------ Theme objects (34-42)
\* file names: a base name and a valid extension
BaseNames == {<<"a">>, <<"b">>, <<"a", "-", "b">>, <<"a", " ", "b">>, <<"a", ".", "b">>}
FileNames == {b \o <<".", e>> : b \in BaseNames, e \in {"css", "less"}} \cup {FileDefault}

\* new Theme(file, options) as loadFile makes it (257), options being empty
NewTheme(file) ==
    /\ Len(themes) < MaxThemes
    /\ themes' = Append(themes, Theme(file))
    /\ UNCHANGED <<inited, prefThemes, loadedThemes, fileSource, styleSheets, pipes,
                   reloads, loads, editor, timers, ops, calls, themeChangeArg,
                   dirs, text, replaced>>

InitTheme == Init /\ editor = "none" /\ prefThemes = <<NameA>>

NextTheme == \E file \in FileNames : NewTheme(file)

SpecTheme == InitTheme /\ [][NextTheme]_vars

\* ------------------------------------- commentRegex on characters (22, 81)
Alphabet == {"/", "*", "x"}

\* the positions k >= 3 of s where a "*/" starts
closings(s) == {k \in 3..(Len(s) - 1) : s[k] = "*" /\ s[k + 1] = "/"}

RECURSIVE replaceComments(_)
\* s.replace(/\/\*([\s\S]*?)\*\//mg, ""): from left to right, each "/*" with a
\* later "*/" is removed up to the first such "*/", and the scan goes on
\* behind it; the result is not scanned again
replaceComments(s) ==
    IF s = <<>> THEN <<>>
    ELSE IF Len(s) >= 4 /\ s[1] = "/" /\ s[2] = "*" /\ closings(s) # {}
    THEN LET k == CHOOSE c \in closings(s) : \A d \in closings(s) : c <= d
         IN  replaceComments(SubSeq(s, k + 2, Len(s)))
    ELSE <<s[1]>> \o replaceComments(Tail(s))

\* one more character of the source
Write(c) ==
    /\ replaced = 0
    /\ Len(text) < MaxLen
    /\ text' = Append(text, c)
    /\ UNCHANGED <<inited, prefThemes, loadedThemes, themes, fileSource, styleSheets,
                   pipes, reloads, loads, editor, timers, ops, calls, themeChangeArg,
                   dirs, replaced>>

\* content.replace(commentRegex, "") (81), on the source or on its own result
ReplaceComments ==
    /\ replaced < 2
    /\ replaced' = replaced + 1
    /\ text' = replaceComments(text)
    /\ UNCHANGED <<inited, prefThemes, loadedThemes, themes, fileSource, styleSheets,
                   pipes, reloads, loads, editor, timers, ops, calls, themeChangeArg,
                   dirs>>

NextStrip ==
    \/ \E c \in Alphabet : Write(c)
    \/ ReplaceComments

SpecStrip == InitTheme /\ [][NextStrip]_vars

\* ------------------------------------------------------------------- Next
Next ==
    \/ InitModule
    \/ \E sel \in PrefChoices : PrefThemesChange(sel)
    \/ \E key \in LightKeys : PrefLightChange(key)
    \/ \E file \in Files, isDir \in BOOLEAN : \E src \in SourcesOf(file) : FileSystemChange(file, isDir, src)
    \/ \E ed \in Editors : ActiveEditorChange(ed)
    \/ \E force \in BOOLEAN : CallRefresh(force)
    \/ TimerFire
    \/ \E file \in Files : LoadFile(file)
    \/ \E l \in 1..Len(loads), err \in BOOLEAN, exists \in BOOLEAN : ExistsDone(l, err, exists)
    \/ \E p \in 1..Len(pipes), ok \in BOOLEAN : ReadDone(p, ok)
    \/ \E p \in 1..Len(pipes) : CompileDone(p)
    \/ \E p \in 1..Len(pipes) : Store(p)

Spec == Init /\ [][Next]_vars

TypeOK ==
    /\ inited \in BOOLEAN
    /\ prefThemes \in PrefChoices
    /\ Len(pipes) <= MaxPipelines
    /\ Len(loads) <= MaxOps
    /\ timers \in 0..(2 * MaxOps)
    /\ ops \in 0..MaxOps
    /\ styleSheets \subseteq 1..MaxPipelines

\* ------------------------------------------------------------------ claims
Pipes   == 1..Len(pipes)
Reloads == 1..Len(reloads)
Loads   == 1..Len(loads)
Themes  == 1..Len(themes)

terminated(q) == pipes[q].pc \in {"done", "failed"}

\* C1: a chain removes the theme's old style node only once its own new
\* node is embedded, and the style node recorded on a theme is embedded in
\* the document in every state: no state exists in which the old style
\* sheet is gone and the new one is not yet inserted.
C1_InsertBeforeRemove ==
    /\ \A p \in Pipes :
          pipes[p].removed # undefined =>
              /\ pipes[p].node # undefined
              /\ pipes[p].pc = "done"
    /\ \A p \in Pipes : pipes[p].pc = "embedded" => pipes[p].node \in styleSheets
    /\ \A t \in Themes : themes[t].css # undefined => themes[t].css \in styleSheets

\* a chain has replaced an applied style node
C1_Witness ==
    \E p \in Pipes : pipes[p].removed # undefined /\ pipes[p].node \in styleSheets

\* C2 (as claimed): once a chain has failed, at its read or at its compile,
\* the theme's scrollbar rules and style node are those it had when the
\* chain started (stated for a theme no other chain has touched).
C2_FailureLeavesScrollbarAndSheet ==
    \A p \in Pipes :
        (/\ pipes[p].pc = "failed"
         /\ \A q \in Pipes \ {p} : pipes[q].theme # pipes[p].theme)
        => /\ themes[pipes[p].theme].scrollbar = pipes[p].sb0
           /\ themes[pipes[p].theme].css = pipes[p].css0

\* no chain and no existence check is in flight
quiescent ==
    /\ \A p \in Pipes : terminated(p)
    /\ \A l \in Loads : loads[l].state # "checking"

\* the name of the theme that style node h was compiled for
nodeName(h) == themes[pipes[h].theme].name

\* C3 (as claimed): once nothing is in flight, every embedded style node is
\* the one recorded on the theme now registered under its name; a
\* superseded Theme object leaves no style node behind.
C3_NoOrphanedStyleSheet ==
    quiescent =>
        \A h \in styleSheets :
            /\ loadedThemes[nodeName(h)] # undefined
            /\ themes[loadedThemes[nodeName(h)]].css = h

\* C4 (as claimed): a themeChange event is triggered for a refresh(true)
\* call exactly when its aggregate has resolved, whatever made the call:
\* for every successful reload, never before its chains have completed,
\* never for one that failed.
C4_ThemeChangeAfterEverySuccessfulReload ==
    \A r \in Reloads : reloads[r].emitted <=> reloads[r].state = "resolved"

\* C4 (amended): a themeChange event is triggered by the listener of the
\* themes preference alone, for each of its refresh(true) calls that
\* returns: in the step that starts the chains, before any of them has
\* completed and whether or not they succeed later, with the selection
\* resolved at that moment as its payload.  A refresh(true) made for a
\* file system change, by loadFile or by a direct call triggers none, and
\* neither does one that throws.
C4_ThemeChangeOnThemesPreferenceOnly ==
    /\ \A r \in Reloads :
          reloads[r].emitted <=> (reloads[r].trigger = "themes" /\ reloads[r].state # "threw")
    /\ contains(calls, "themeChange") =>
          /\ reloads # <<>>
          /\ reloads[Len(reloads)].trigger = "themes"
          /\ reloads[Len(reloads)].emitted
          /\ \A q \in reloads[Len(reloads)].pipes : pipes[q].pc = "reading"
          /\ themeChangeArg = reloads[Len(reloads)].sel
          /\ themeChangeArg = getCurrentThemes

\* a themeChange was triggered for a reload of which a chain failed later
C4_Witness ==
    \E r \in Reloads :
        /\ reloads[r].emitted
        /\ reloads[r].state = "rejected"
        /\ themeChangeArg = reloads[r].sel

\* C5 (as claimed): every refresh(true) call has started a chain for each
\* theme of the selection it resolved, and its done callback has touched
\* the view only once all of these chains have stored their node.
C5_ChainPerSelectedThemeThenReapply ==
    \A r \in Reloads :
        /\ \A i \in 1..Len(reloads[r].sel) :
              reloads[r].sel[i] # undefined =>
                  \E q \in reloads[r].pipes : pipes[q].theme = reloads[r].sel[i]
        /\ reloads[r].view # "pending" =>
              \A q \in reloads[r].pipes : pipes[q].pc = "done"

\* a light reapply: refresh(false), called directly or by a listener
LightReapplyStep ==
    \/ \E key \in LightKeys : PrefLightChange(key)
    \/ \E ed \in Editors : ActiveEditorChange(ed)
    \/ CallRefresh(FALSE)

\* C6: a light reapply changes neither the registry nor any Theme object
\* (scrollbar rules, style node) nor the embedded style nodes, and starts
\* no read and no compile.
C6_LightReapplyFrame ==
    [][LightReapplyStep =>
          /\ loadedThemes' = loadedThemes
          /\ themes' = themes
          /\ styleSheets' = styleSheets
          /\ pipes' = pipes
          /\ reloads' = reloads]_vars

\* a light reapply has updated the view (no refresh(true) call has
\* resolved) while a style node was applied and a chain was in flight
C6_Witness ==
    /\ calls = <<"setDocumentMode", "updateThemes", "setTimeout">>
    /\ \A r \in Reloads : reloads[r].state # "resolved"
    /\ styleSheets # {}
    /\ \E p \in Pipes : ~terminated(p)

\* the step made a refresh(true) call for trigger
startsReload(trigger) ==
    /\ Len(reloads') = Len(reloads) + 1
    /\ reloads'[Len(reloads')].trigger = trigger

\* the step started no chain and made no refresh(true) call
startsNothing == pipes' = pipes /\ reloads' = reloads

\* the step ran the done callback of refresh at once
reappliesNow ==
    /\ startsNothing
    /\ timers' = timers + (IF editor' = "cm" THEN 1 ELSE 0)

\* C7: the themes preference makes a refresh(true) call; a file system
\* change makes one exactly when the entry is no directory and is the file
\* of a registered theme, and does nothing otherwise; the four other
\* preferences and a change of the active editor only reapply.
C7_RefreshModePerNotification ==
    [][ops' = ops + 1 =>
       /\ \A sel \in PrefChoices : PrefThemesChange(sel) => startsReload("themes")
       /\ \A file \in Files, isDir \in BOOLEAN, src \in Sources :
             (inited /\ FileSystemChange(file, isDir, src)) =>
                 IF /\ ~isDir
                    /\ \E n \in Names : /\ loadedThemes[n] # undefined
                                        /\ themes[loadedThemes[n]].file = file
                 THEN startsReload("fsChange")
                 ELSE startsNothing /\ timers' = timers /\ calls' = <<>>
       /\ \A key \in LightKeys : PrefLightChange(key) => reappliesNow
       /\ \A ed \in Editors : ActiveEditorChange(ed) => reappliesNow]_vars

\* a file system change of a registered theme's file has made a
\* refresh(true) call that started a chain
C7_Witness ==
    /\ inited
    /\ \E r \in Reloads : reloads[r].trigger = "fsChange" /\ reloads[r].pipes # {}

viewCalls == <<"setDocumentMode", "updateThemes", "setTimeout">>

\* C8 (as claimed): every refresh ends by updating the view and requesting
\* a repaint, or by doing neither when there is no editor: once the chains
\* of a refresh(true) call that returned have all ended, its done callback
\* has run.
C8_EveryRefreshEndsWithDoneCallback ==
    \A r \in Reloads :
        (/\ reloads[r].state # "threw"
         /\ \A q \in reloads[r].pipes : terminated(q))
        => reloads[r].view # "pending"

\* some refresh(true) call resolves in this step
reloadResolves ==
    \E r \in Reloads : reloads[r].state = "pending" /\ reloads'[r].state = "resolved"

\* C8 (amended): the done callback runs for every refresh(false), at once,
\* and for a refresh(true) when the last of its chains has stored its
\* node, and for no other refresh(true): not for one of which a chain
\* failed, not for one that threw.  When it runs and an editor with a
\* renderer is active it updates the view's mode and themes and then
\* schedules one timeout; otherwise it calls nothing and schedules nothing.
\* No other step schedules a timeout.
C8_DoneCallbackOnSuccessOnly ==
    [][/\ \A r \in 1..Len(reloads') :
             /\ reloads'[r].view # "pending" <=> reloads'[r].state = "resolved"
             /\ reloads'[r].state = "resolved" <=>
                   (/\ reloads'[r].state # "threw"
                    /\ \A q \in reloads'[r].pipes : pipes'[q].pc = "done")
       /\ (LightReapplyStep \/ reloadResolves) =>
             IF editor' = "cm"
             THEN /\ timers' = timers + 1
                  /\ Len(calls') >= 3
                  /\ SubSeq(calls', 1, 3) = viewCalls
             ELSE /\ timers' = timers
                  /\ ~contains(calls', "setDocumentMode")
                  /\ ~contains(calls', "updateThemes")
                  /\ ~contains(calls', "setTimeout")
       /\ timers' > timers => (LightReapplyStep \/ reloadResolves)
       /\ \A r \in Reloads :
             (reloads[r].view = "pending" /\ reloads'[r].view = "updated") => editor = "cm"]_vars

\* with an editor active, all chains of a refresh(true) call have ended,
\* one of them failed, and the view was not touched
C8_Witness ==
    \E r \in Reloads :
        /\ editor = "cm"
        /\ reloads[r].state = "rejected"
        /\ \A q \in reloads[r].pipes : terminated(q)
        /\ \E q \in reloads[r].pipes : pipes[q].pc = "done"
        /\ reloads[r].view = "pending"
        /\ timers = 0

\* chain p fails in this step
fails(p) == pipes[p].pc # "failed" /\ pipes'[p].pc = "failed"

\* C9: a chain that fails removes and embeds no style node and leaves the
\* style node of every theme and every other chain, of its own refresh and
\* of any other, as they are; a chain that completes has its node embedded
\* and recorded on its theme.
C9_FailureIsLocal ==
    [][\A p \in Pipes :
          /\ fails(p) =>
                /\ styleSheets' = styleSheets
                /\ \A t \in Themes : themes'[t].css = themes[t].css
                /\ \A q \in Pipes \ {p} : pipes'[q] = pipes[q]
          /\ (pipes[p].pc # "done" /\ pipes'[p].pc = "done") =>
                /\ pipes'[p].node \in styleSheets'
                /\ themes'[pipes[p].theme].css = pipes'[p].node]_vars

\* in one reload of two themes the chain of one failed and left the
\* theme's earlier style node embedded, and the chain of the other applied
\* its new node
C9_Witness ==
    \E r \in Reloads : \E p, q \in reloads[r].pipes :
        /\ pipes[p].pc = "failed"
        /\ pipes[p].css0 # undefined
        /\ themes[pipes[p].theme].css = pipes[p].css0
        /\ pipes[p].css0 \in styleSheets
        /\ pipes[q].theme # pipes[p].theme
        /\ pipes[q].pc = "done"
        /\ themes[pipes[q].theme].css = pipes[q].node
        /\ pipes[q].node \in styleSheets

\* C10 (as claimed): the result of loadFile follows the answer of the
\* existence check: resolved with the Theme just registered when the file
\* exists, rejected on an error, left unsettled when the file is absent
\* without an error; in the last two cases nothing was registered and no
\* refresh was made.
C10_ResultFollowsExistenceCheck ==
    \A l \in Loads :
        /\ loads[l].answer = "exists" =>
              /\ loads[l].state = "resolved"
              /\ loads[l].theme # undefined
              /\ themes[loads[l].theme].name = baseName(loads[l].file)
        /\ loads[l].answer = "error"  =>
              loads[l].state = "rejected" /\ loads[l].theme = undefined /\ ~loads[l].refreshed
        /\ loads[l].answer = "absent" =>
              loads[l].state = "dropped" /\ loads[l].theme = undefined /\ ~loads[l].refreshed
        /\ loads[l].answer = "none"   => loads[l].state = "checking"

\* the existence check of loadFile call l answers that the file exists
registers(l) == loads[l].answer = "none" /\ loads'[l].answer = "exists"

\* C11 (as claimed): when loadFile registers a theme, it makes a
\* refresh(true) call in the same callback if the theme's name is in the
\* themes preference at that moment, and starts nothing if it is not.
C11_LoadFileRefreshesWhenSelected ==
    [][\A l \in Loads :
          registers(l) =>
              IF contains(prefThemes, baseName(loads[l].file))
              THEN startsReload("loadFile")
              ELSE startsNothing]_vars

Dirs == 1..Len(dirs)

\* C12: loadDirectory with a falsy path is rejected at once with
\* {path, error}, without a listing and without an existence check; a
\* listing that reports an error rejects it with {path, error} as well.  In
\* both cases no loadFile call is made and the registry stays as it is, and
\* the promise returned stays rejected.
C12_LoadDirectoryFailsStructured ==
    [][/\ LoadDirectory(NoPath) =>
             /\ dirs'[Len(dirs')].listing = "none"
             /\ loads' = loads
             /\ loadedThemes' = loadedThemes
       /\ \A d \in Dirs, entries \in Listings :
             ReadContent(d, TRUE, entries) =>
                 /\ dirs'[d].listing = "failed"
                 /\ loads' = loads
                 /\ loadedThemes' = loadedThemes
       /\ \A d \in 1..Len(dirs') :
             dirs'[d].listing \in {"none", "failed"} =>
                 /\ dirState(d)' = "rejected"
                 /\ DOMAIN dirs'[d].value = {"path", "error"}
                 /\ dirs'[d].value.path = dirs'[d].path
                 /\ dirs'[d].loads = {}
                 /\ dirs'[d].listing = "none" <=> dirs'[d].path = NoPath]_vars

\* a listing of theme files reported an error: rejected, no loadFile call
C12_Witness ==
    \E d \in Dirs :
        /\ dirs[d].listing = "failed"
        /\ \E i \in 1..Len(dirs[d].entries) : isFileTypeValid(dirs[d].entries[i])
        /\ dirState(d) = "rejected"
        /\ dirs[d].value = [path |-> PathThemes, error |-> "err"]
        /\ loads = <<>>

\* the loadFile calls made in this step
newLoads == SubSeq(loads', Len(loads) + 1, Len(loads'))

\* entry e is a file whose name ends in ".css" or ".less"
isThemeFile(e) ==
    /\ e.isFile
    /\ Len(e.name) >= 2
    /\ e.name[Len(e.name) - 1] = "."
    /\ e.name[Len(e.name)] \in {"css", "less"}

\* C13: a listing delivered without error makes one loadFile call for each
\* entry that is a file named *.css or *.less, in lower case, and none for
\* any other entry.
C13_LoadsExactlyThemeFiles ==
    [][\A d \in Dirs, entries \in Listings :
          ReadContent(d, FALSE, entries) =>
              /\ \A i \in 1..Len(entries) :
                    Cardinality({k \in 1..Len(newLoads) : newLoads[k].file = entries[i].name})
                        = IF isThemeFile(entries[i]) THEN 1 ELSE 0
              /\ \A k \in 1..Len(newLoads) :
                    /\ \E i \in 1..Len(entries) : entries[i].name = newLoads[k].file
                    /\ newLoads[k].state = "checking"
              /\ dirs'[d].loads = (Len(loads) + 1)..Len(loads')]_vars

\* the whole mixed listing was delivered and exactly the two theme files
\* were handed to loadFile
C13_Witness ==
    \E d \in Dirs :
        /\ dirs[d].listing = "delivered"
        /\ dirs[d].entries = AllEntries
        /\ Cardinality(dirs[d].loads) = 2
        /\ {loads[l].file : l \in dirs[d].loads} = {FileA, FileDefaultLess}

\* the theme the claim assigns to name: the one registered under it, else
\* the one registered as "default" (undefined when there is none either)
registeredOrDefault(name) ==
    IF loadedThemes'[name] # undefined THEN loadedThemes'[name]
    ELSE loadedThemes'[defaultTheme]

\* C14: the selection that a refresh(true) call resolves, and the payload
\* of a themeChange event, have the length and order of the themes
\* preference as it is in that call, and their i-th element is the theme
\* registered under the i-th name, or else the theme registered as
\* "default".
C14_SelectionResolvesWithDefault ==
    [][/\ Len(reloads') > Len(reloads) =>
             /\ Len(reloads'[Len(reloads')].sel) = Len(prefThemes')
             /\ \A i \in 1..Len(prefThemes') :
                   reloads'[Len(reloads')].sel[i] = registeredOrDefault(prefThemes'[i])
       /\ contains(calls', "themeChange") =>
             /\ Len(themeChangeArg') = Len(prefThemes')
             /\ \A i \in 1..Len(prefThemes') :
                   themeChangeArg'[i] = registeredOrDefault(prefThemes'[i])]_vars

\* with only "default" registered, the selection ["a", "default"] resolved
\* to the default theme twice
C14_Witness ==
    /\ prefThemes = <<NameA, defaultTheme>>
    /\ Len(themes) = 1
    /\ loadedThemes[NameA] = undefined
    /\ loadedThemes[defaultTheme] = 1
    /\ reloads # <<>>
    /\ reloads[Len(reloads)].sel = <<1, 1>>

\* C15 (as claimed): init() wires the listeners and makes one refresh(false)
\* call before it returns, whose done callback updates the view and
\* schedules a timeout when an editor with a renderer is active.
C15_InitReappliesOnce ==
    [][InitModule =>
          /\ inited'
          /\ reappliesNow
          /\ editor = "cm" => SubSeq(calls', 1, 3) = viewCalls]_vars

\* C15 (amended): init() wires the listeners, calls ThemeView.updateFonts
\* and ThemeView.updateScrollbars and makes no refresh call: it updates no
\* view mode, no view theme and schedules no timeout.  Until then no
\* listener of the module has made a refresh.
C15_InitWiresWithoutRefresh ==
    [][/\ InitModule =>
             /\ inited'
             /\ calls' = <<"updateFonts", "updateScrollbars">>
             /\ timers' = timers
             /\ startsNothing
       /\ ~inited' =>
             \A r \in 1..Len(reloads') : reloads'[r].trigger \in {"refresh", "loadFile"}]_vars

\* init() has returned with an editor with a renderer active and no
\* timeout is pending
C15_Witness ==
    /\ inited
    /\ calls = <<"updateFonts", "updateScrollbars">>
    /\ editor = "cm"
    /\ timers = 0

\* C16 (as claimed): Theme objects made from different file names have
\* different class names, whether or not their display names are equal.
C16_DistinctFilesDistinctClassNames ==
    \A i, j \in Themes :
        themes[i].file # themes[j].file => themes[i].className # themes[j].className

\* C17 (as claimed): a text that went through the comment replacement
\* once is left as it is by a second replacement.
C17_ReplaceCommentsIdempotent ==
    [][(replaced = 1 /\ ReplaceComments) => text' = text]_vars

\* C18: the chain that stores last wins: when a chain stores its node the
\* theme's style node becomes that node and the node recorded before is
\* removed from the document; once every chain of a Theme object has ended,
\* the only style node of that object in the document is the one recorded
\* on it.
C18_LastToCompleteWins ==
    [][/\ \A p \in Pipes :
             (pipes[p].pc = "embedded" /\ pipes'[p].pc = "done") =>
                 /\ themes'[pipes[p].theme].css = pipes[p].node
                 /\ themes[pipes[p].theme].css # undefined =>
                       themes[pipes[p].theme].css \notin styleSheets'
       /\ \A t \in 1..Len(themes') :
             (\A q \in 1..Len(pipes') : pipes'[q].theme = t => pipes'[q].pc \in {"done", "failed"}) =>
                 {h \in styleSheets' : pipes'[h].theme = t}
                     = IF themes'[t].css = undefined THEN {} ELSE {themes'[t].css}]_vars

\* the chains of two refresh(true) calls for one Theme object overlapped:
\* the one started first stored last, removed the node of the other and
\* left its own as the only one
C18_Witness ==
    \E p, q \in Pipes :
        /\ p < q
        /\ pipes[p].reload # pipes[q].reload
        /\ pipes[p].theme = pipes[q].theme
        /\ pipes[p].pc = "done" /\ pipes[q].pc = "done"
        /\ pipes[p].removed = pipes[q].node
        /\ themes[pipes[p].theme].css = pipes[p].node
        /\ {h \in styleSheets : pipes[h].theme = pipes[p].theme} = {pipes[p].node}

\* C19 (as claimed): once no chain and no existence check is in flight and
\* no read or compile has failed, every theme of the resolved selection,
\* the default theme standing in for an unregistered name included, has a
\* style node applied.
C19_SelectionApplied ==
    (quiescent /\ \A p \in Pipes : pipes[p].pc # "failed") =>
        \A i \in 1..Len(prefThemes) :
            getCurrentThemes[i] # undefined => themes[getCurrentThemes[i]].css # undefined

\* C20 (as claimed): once the listing callback was delivered and the
\* existence check of every loadFile call made for it has called back, the
\* promise that loadDirectory returned is settled.
C20_LoadDirectorySettles ==
    \A d \in Dirs :
        (/\ dirs[d].listing \in {"delivered", "failed"}
         /\ \A l \in dirs[d].loads : loads[l].answer # "none")
        => dirState(d) # "pending"

====
